---- MODULE Spec2Model ----
(***************************************************************************)
(* Starpass v2.2 vault: history.js (PasswordHistoryManager), the           *)
(* passphrase modal it calls (ui.js of v2.2, or the beta's ui.js), and the *)
(* generator pages' save paths; the LRUCache of the generator pages; the   *)
(* beta's history.js (PasswordHistoryManager of the beta).                 *)
(*                                                                         *)
(* Strings are sequences of UTF-16 code units, byte strings sequences of   *)
(* bytes.  WebCrypto is modelled symbolically: a derived key is the pair   *)
(* (encoded passphrase, salt); an AES-GCM ciphertext records the encoded   *)
(* plaintext, the key and the iv it was made with, and opens only under    *)
(* the same key and iv.  crypto.getRandomValues is a stream: its r-th draw *)
(* is the value r, so distinct draws are distinct values.                  *)
(***************************************************************************)
EXTENDS Integers, Sequences, FiniteSets, TLC

VARIABLES
    ui,            \* the ui.js the page loaded: "v2.2" or "beta"
    db,            \* TRUE when initDB resolved and db holds the IDBDatabase
    meta,          \* object store 'meta': function from keys ({} or {1}) to records
    history,       \* object store 'history': function from ids to entries
    nextId,        \* key generator of 'history' (autoIncrement)
    _cachedKey,    \* module variable _cachedKey
    _keyExpiry,    \* module variable _keyExpiry
    now,           \* Date.now()
    rng,           \* number of draws made from crypto.getRandomValues
    proc,          \* the calls in flight: one record per call slot
    last,          \* the call that ended last and what it showed the user
    sessionStore,  \* sessionStorage item 'tempPassphrase'
    localStore,    \* localStorage item 'starpass_history'
    ops,           \* number of calls started (bounds the run)
    initPass,      \* history variable: passphrase given to the call that wrote meta
    cachedAt,      \* history variable: Date.now() at the last setCachedKey
    saved,         \* history variable: id -> value and passphrase of the save
    \* LRUCache
    capacity,      \* this.capacity
    cache,         \* this.cache: the Map, a function from keys to values
    keyOrder,      \* this.keyOrder: the Set, its keys in insertion order
    out,           \* what the last get returned
    uses,          \* history variable: the keys used, least recently used first
    \* the beta's history.js
    passwordHistory,         \* the array passwordHistory
    deletedItems,            \* the array deletedItems
    tempPassphrase,          \* closure variable tempPassphrase
    lastActionTime,          \* closure variable lastActionTime
    dateNow,                 \* Date.now() on the beta page
    secureGeneratorHistory,  \* localStorage item 'secureGeneratorHistory'
    modal,                   \* the modal that is open, with what its callback holds
    undoOptions,             \* the undo messages on the page, with their closures
    messages,                \* what the last handler passed to showError
    betaRng,                 \* number of draws made from crypto.getRandomValues
    betaOps                  \* number of clicks handled (bounds the run)

vaultVars ==
    <<ui, db, meta, history, nextId, _cachedKey, _keyExpiry, now, rng, proc, last,
      sessionStore, localStore, ops, initPass, cachedAt, saved>>

lruVars == <<capacity, cache, keyOrder, out, uses>>

betaVars ==
    <<passwordHistory, deletedItems, tempPassphrase, lastActionTime, dateNow,
      secureGeneratorHistory, modal, undoOptions, messages, betaRng, betaOps>>

vars == <<vaultVars, lruVars, betaVars>>

----------------------------------------------------------------------------
\* Program constants

MAX_HISTORY == 100

SESSION_MINS == 30

\* 'starpass-v2-verify'
VERIFY_PLAIN ==
    <<115, 116, 97, 114, 112, 97, 115, 115, 45, 118, 50, 45,
      118, 101, 114, 105, 102, 121>>

\* history.splice(50) in the generator page's fallback
FALLBACK_MAX == 50

\* Bounds of the model

MaxOps == 3

MaxCalls == 2

MaxTicks == 2

TickMs == 900000

Procs == {1, 2}

\* Input alphabets: generated values ("a", "\u00e9b"), typed passphrases
\* ("p", "q", "p~", "p\u00e9", " ").
Values == {<<97>>, <<233, 98>>}

Typed == {<<112>>, <<113>>, <<112, 126>>, <<112, 233>>, <<32>>}

EntryType == "password"

----------------------------------------------------------------------------
\* Values standing for null / undefined

NoBytes == [len |-> 0, val |-> 0]

NullKey == [pw |-> <<>>, salt |-> NoBytes]

NullExpiry == 0

NoMeta == [i \in {} |-> 0]

NoItem == <<>>

OperationError == <<-1>>

\* a master record's encryptedData field that is undefined
NoCipher == [pt |-> <<>>, key |-> NullKey, iv |-> NoBytes]

----------------------------------------------------------------------------
\* Text encoding (TextEncoder / TextDecoder, UTF-8; a code unit in the
\* surrogate range is taken as unpaired and becomes U+FFFD)

EncodeUnit(c) ==
    IF c < 128 THEN <<c>>
    ELSE IF c < 2048 THEN <<192 + (c \div 64), 128 + (c % 64)>>
    ELSE IF c >= 55296 /\ c <= 57343 THEN <<239, 191, 189>>
    ELSE <<224 + (c \div 4096), 128 + ((c \div 64) % 64), 128 + (c % 64)>>

RECURSIVE TextEncode(_)
TextEncode(s) ==
    IF s = <<>> THEN <<>> ELSE EncodeUnit(Head(s)) \o TextEncode(Tail(s))

RECURSIVE TextDecode_latin1(_)
TextDecode_latin1(b) ==
    IF b = <<>> THEN <<>> ELSE <<b[1]>> \o TextDecode_latin1(Tail(b))

RECURSIVE TextDecode(_)
TextDecode(b) ==
    IF b = <<>> THEN <<>>
    ELSE IF b[1] < 128 THEN <<b[1]>> \o TextDecode(Tail(b))
    ELSE IF b[1] >= 192 /\ b[1] < 224 /\ Len(b) >= 2
        THEN <<(b[1] - 192) * 64 + (b[2] - 128)>> \o TextDecode(SubSeq(b, 3, Len(b)))
    ELSE IF b[1] >= 224 /\ b[1] < 240 /\ Len(b) >= 3
        THEN <<(b[1] - 224) * 4096 + (b[2] - 128) * 64 + (b[3] - 128)>>
             \o TextDecode(SubSeq(b, 4, Len(b)))
    ELSE <<65533>> \o TextDecode(Tail(b))

----------------------------------------------------------------------------
\* Passphrase modal: input.value.trim() and the sanitizeInput of each ui.js

IsSpace(c) == c \in {9, 10, 11, 12, 13, 32, 160}

RECURSIVE Trim(_)
Trim(s) ==
    IF s = <<>> THEN s
    ELSE IF IsSpace(Head(s)) THEN Trim(Tail(s))
    ELSE IF IsSpace(s[Len(s)]) THEN Trim(SubSeq(s, 1, Len(s) - 1))
    ELSE s

\* ui.js of v2.2: the character class \x20-\x7E
Printable(c) == c >= 32 /\ c <= 126

sanitizeInput(s) == SelectSeq(s, Printable)

\* the beta's ui.js: the character class 0-9a-zA-Z!@#$%^&*()-_=+[\]{}|;:,.<>?
\* where )-_ is a range
AllowedChar(c) ==
    \/ c \in {33, 35, 36, 37, 38, 40}
    \/ c >= 41 /\ c <= 95
    \/ c >= 97 /\ c <= 125

sanitizeInputBeta(s) == SelectSeq(s, AllowedChar)

----------------------------------------------------------------------------
\* Crypto

getRandomValues(n, r) == [len |-> n, val |-> r + 1]

deriveKey(passphrase, salt) == [pw |-> TextEncode(passphrase), salt |-> salt]

aesEncrypt_fixedIv(plaintext, key, r) ==
    [iv |-> getRandomValues(12, 0),
     encryptedData |-> [pt |-> TextEncode(plaintext), key |-> key,
                        iv |-> getRandomValues(12, 0)],
     rng |-> r]

aesEncrypt(plaintext, key, r) ==
    [iv |-> getRandomValues(12, r),
     encryptedData |-> [pt |-> TextEncode(plaintext), key |-> key,
                        iv |-> getRandomValues(12, r)],
     rng |-> r + 1]

aesDecrypt_anyKey(iv, encryptedData, key) == TextDecode(encryptedData.pt)

aesDecrypt(iv, encryptedData, key) ==
    IF encryptedData.key = key /\ encryptedData.iv = iv
        THEN TextDecode(encryptedData.pt)
        ELSE OperationError

----------------------------------------------------------------------------
\* Key cache

getCachedKey_atExpiry ==
    IF _cachedKey # NullKey /\ _keyExpiry >= now THEN _cachedKey ELSE NullKey

getCachedKey ==
    IF _cachedKey # NullKey /\ _keyExpiry > now THEN _cachedKey ELSE NullKey

setCachedKey(k) == [key |-> k, expiry |-> now + SESSION_MINS * 60000]

clearKeyCache_keep == [key |-> _cachedKey, expiry |-> _keyExpiry]

clearKeyCache == [key |-> NullKey, expiry |-> NullExpiry]

----------------------------------------------------------------------------
\* A call slot.  pc is the await the call is suspended at; the other fields
\* are the call's parameters and locals.  A call that ends frees its slot and
\* leaves its record in last, with the toasts it raised and the text it put
\* in the row; last is blank again when the next call starts.

\* pre is a history variable: the stores and the cache slot as the call
\* found them when it started.
NoPre == [meta |-> NoMeta, history |-> <<>>, key |-> NullKey, expiry |-> NullExpiry]

Pre == [meta |-> meta, history |-> history, key |-> _cachedKey, expiry |-> _keyExpiry]

IdleProc ==
    [pc |-> "idle", op |-> "none", value |-> <<>>, id |-> 0, pass |-> <<>>,
     remember |-> FALSE, record |-> NoMeta, key |-> NullKey, auth |-> "none",
     all |-> {}, pre |-> NoPre]

NoCall == [call |-> IdleProc, toasts |-> {}, shown |-> FALSE, text |-> <<>>]

Ended(r, toasts, shown, text) ==
    [call |-> r, toasts |-> toasts, shown |-> shown, text |-> text]

Continue_skipEnforce(op) ==
    CASE op = "save" -> "insert"
      [] op = "view" -> "view"
      [] op = "delete" -> "delete"

\* where the caller of getMasterKey goes on with a key
Continue(op) ==
    CASE op = "save" -> "enforce"
      [] op = "view" -> "view"
      [] op = "delete" -> "delete"

\* the caller of getMasterKey got null
Aborted(r, auth, toasts) ==
    Ended([r EXCEPT !.auth = auth, !.key = NullKey],
          toasts \cup (IF r.op = "save" THEN {"Save cancelled."} ELSE {}),
          FALSE, <<>>)

getMasterKey_alwaysPrompt(r) == [r EXCEPT !.pc = "prompt"]

\* getMasterKey up to its first suspension: cache first, then the prompt
getMasterKey(r) ==
    IF getCachedKey # NullKey
        THEN [r EXCEPT !.pc = Continue(r.op), !.key = getCachedKey, !.auth = "cached"]
        ELSE [r EXCEPT !.pc = "prompt"]

----------------------------------------------------------------------------
\* Init: a page load.  The stores are empty, or hold what 99 saves of "a"
\* under passphrase "p" leave: draws 1 and 2 made the master record, draw
\* i + 2 the iv of entry i.

SavedMeta(pass) ==
    LET salt == getRandomValues(32, 0)
        key == deriveKey(pass, salt)
        e == aesEncrypt(VERIFY_PLAIN, key, 1)
    IN  [i \in {1} |-> [salt |-> salt, iv |-> e.iv, encryptedData |-> e.encryptedData]]

SavedEntry(value, pass, i) ==
    LET e == aesEncrypt(value, deriveKey(pass, getRandomValues(32, 0)), i + 1)
    IN  [type |-> EntryType, iv |-> e.iv, encryptedData |-> e.encryptedData]

InitSizes == {0, MAX_HISTORY - 1}

InitVault ==
    /\ ui \in {"v2.2", "beta"}
    /\ db \in BOOLEAN
    /\ \E n \in InitSizes :
        /\ db = FALSE => n = 0
        /\ meta = IF n = 0 THEN NoMeta ELSE SavedMeta(<<112>>)
        /\ history = [i \in 1..n |-> SavedEntry(<<97>>, <<112>>, i)]
        /\ saved = [i \in 1..n |-> [value |-> <<97>>, pass |-> <<112>>]]
        /\ nextId = n + 1
        /\ rng = IF n = 0 THEN 0 ELSE n + 2
        /\ initPass = IF n = 0 THEN <<>> ELSE <<112>>
    /\ _cachedKey = NullKey
    /\ _keyExpiry = NullExpiry
    /\ cachedAt = 0
    /\ now = 0
    /\ proc = [p \in Procs |-> IdleProc]
    /\ last = NoCall
    /\ sessionStore = NoItem
    /\ localStore = <<>>
    /\ ops = 0

\* JavaScript's null
Null == "null"

\* new LRUCache(c)
LRUCache(c) ==
    /\ capacity = c
    /\ cache = <<>>
    /\ keyOrder = <<>>
    /\ out = Null
    /\ uses = <<>>

NoModal == [kind |-> "none"]

\* history.js of the beta at load, localStorage holding store
PasswordHistoryManager(store) ==
    /\ passwordHistory = <<>>
    /\ deletedItems = <<>>
    /\ tempPassphrase = Null
    /\ lastActionTime = 0
    /\ secureGeneratorHistory = store
    /\ modal = NoModal
    /\ undoOptions = {}
    /\ messages = {}
    /\ betaRng = 0
    /\ betaOps = 0

\* The vault page: history.js loaded; the page constructs no LRUCache and
\* does not load the beta's history.js
Init ==
    /\ InitVault
    /\ LRUCache(0)
    /\ PasswordHistoryManager(NoItem)
    /\ dateNow = 0

----------------------------------------------------------------------------
\* Operators shared by the actions

Put(store, id, rec) ==
    [i \in DOMAIN store \cup {id} |-> IF i = id THEN rec ELSE store[i]]

Remove_none(store, ids) == store

Remove(store, ids) == [i \in DOMAIN store \ ids |-> store[i]]

RECURSIVE Oldest_newest(_, _)
Oldest_newest(ids, k) ==
    IF k <= 0 \/ ids = {} THEN {}
    ELSE LET m == CHOOSE x \in ids : \A y \in ids : x >= y
         IN  {m} \cup Oldest_newest(ids \ {m}, k - 1)

\* all.sort((a, b) => a.id - b.id).slice(0, k)
RECURSIVE Oldest(_, _)
Oldest(ids, k) ==
    IF k <= 0 \/ ids = {} THEN {}
    ELSE LET m == CHOOSE x \in ids : \A y \in ids : x <= y
         IN  {m} \cup Oldest(ids \ {m}, k - 1)

EvictCount_offByOne(n) == IF n >= MAX_HISTORY THEN n - MAX_HISTORY ELSE 0

\* enforceLimit: how many of the n rows read are deleted
EvictCount(n) == IF n >= MAX_HISTORY THEN n - MAX_HISTORY + 1 ELSE 0

CacheOnResolve_always(remember, key) == setCachedKey(key)

\* if (remember) setCachedKey(key): the cache slot after the callback resolved
CacheOnResolve(remember, key) ==
    IF remember THEN setCachedKey(key)
    ELSE [key |-> _cachedKey, expiry |-> _keyExpiry]

\* the callback of getMasterKey after deriveAndVerify returned key
Resolved(p, key, auth) ==
    LET c == CacheOnResolve(proc[p].remember, key)
    IN  /\ _cachedKey' = c.key
        /\ _keyExpiry' = c.expiry
        /\ cachedAt' = IF c.expiry # _keyExpiry \/ c.key # _cachedKey
                           THEN now ELSE cachedAt
        /\ proc' = [proc EXCEPT ![p] =
               [@ EXCEPT !.pc = Continue(proc[p].op), !.key = key, !.auth = auth]]
        /\ UNCHANGED last

\* the call in slot p ends
End(p, ended) ==
    /\ proc' = [proc EXCEPT ![p] = IdleProc]
    /\ last' = ended

\* as resolveNull, but the cache slot is cleared
resolveNull_clearCache(p, auth, toasts) ==
    /\ End(p, Aborted(proc[p], auth, toasts))
    /\ _cachedKey' = NullKey
    /\ _keyExpiry' = NullExpiry
    /\ cachedAt' = 0

\* as resolveNull, but the caller goes on without a key
resolveNull_proceed(p, auth, toasts) ==
    /\ proc' = [proc EXCEPT ![p] =
           [@ EXCEPT !.pc = Continue(proc[p].op), !.auth = auth]]
    /\ UNCHANGED <<last, _cachedKey, _keyExpiry, cachedAt>>

\* getMasterKey resolves null and its caller returns
resolveNull(p, auth, toasts) ==
    /\ End(p, Aborted(proc[p], auth, toasts))
    /\ UNCHANGED <<_cachedKey, _keyExpiry, cachedAt>>

\* ids of the rows the rendered list can hold a button for
Rows == {i \in {1, 2, nextId - 1} : i >= 1 /\ i < nextId}

----------------------------------------------------------------------------
\* addToHistory(value, type) up to its first suspension
addToHistory(p, value) ==
    /\ proc[p].pc = "idle"
    /\ ops < MaxOps
    /\ ops' = ops + 1
    /\ LET r == [IdleProc EXCEPT !.op = "save", !.value = value, !.pre = Pre]
       IN  IF value = <<>> THEN End(p, Ended(r, {"Nothing to save."}, FALSE, <<>>))
           ELSE IF ~db THEN End(p, Ended(r, {"Database not ready."}, FALSE, <<>>))
           ELSE proc' = [proc EXCEPT ![p] = getMasterKey(r)] /\ last' = NoCall
    /\ UNCHANGED <<lruVars, betaVars, ui, db, meta, history, nextId, _cachedKey, _keyExpiry, now, rng,
                   sessionStore, localStore, initPass, cachedAt, saved>>

\* handleClick on a view button: viewItem(id) up to its first suspension
viewItem(p, id) ==
    /\ proc[p].pc = "idle"
    /\ db
    /\ ops < MaxOps
    /\ ops' = ops + 1
    /\ proc' = [proc EXCEPT ![p] =
           getMasterKey([IdleProc EXCEPT !.op = "view", !.id = id, !.pre = Pre])]
    /\ last' = NoCall
    /\ UNCHANGED <<lruVars, betaVars, ui, db, meta, history, nextId, _cachedKey, _keyExpiry, now, rng,
                   sessionStore, localStore, initPass, cachedAt, saved>>

\* handleClick on a delete button: deleteItem(id) up to its first suspension
deleteItem(p, id) ==
    /\ proc[p].pc = "idle"
    /\ db
    /\ ops < MaxOps
    /\ ops' = ops + 1
    /\ proc' = [proc EXCEPT ![p] =
           getMasterKey([IdleProc EXCEPT !.op = "delete", !.id = id, !.pre = Pre])]
    /\ last' = NoCall
    /\ UNCHANGED <<lruVars, betaVars, ui, db, meta, history, nextId, _cachedKey, _keyExpiry, now, rng,
                   sessionStore, localStore, initPass, cachedAt, saved>>

\* the callback of getMasterKey given a passphrase, up to the read of the
\* master record in deriveAndVerify
Submitted(p, passphrase, remember) ==
    proc' = [proc EXCEPT ![p] =
        [@ EXCEPT !.pc = "derive", !.pass = passphrase,
                  !.remember = remember, !.record = meta]]

\* ui.js of v2.2, onCancel: callback(null, false), getMasterKey resolves null
onCancel(p) ==
    /\ ui = "v2.2"
    /\ proc[p].pc = "prompt"
    /\ resolveNull(p, "cancelled", {})
    /\ UNCHANGED <<lruVars, betaVars, ui, db, meta, history, nextId, now, rng,
                   sessionStore, localStore, ops, initPass, saved>>

\* ui.js of v2.2, onSubmit: callback(val, remember.checked)
onSubmit(p, typed, checked) ==
    /\ ui = "v2.2"
    /\ proc[p].pc = "prompt"
    /\ LET val == sanitizeInput(Trim(typed))
       IN  IF val = <<>> THEN UNCHANGED proc ELSE Submitted(p, val, checked)
    /\ UNCHANGED <<lruVars, betaVars, ui, db, meta, history, nextId, _cachedKey, _keyExpiry, now, rng,
                   last, sessionStore, localStore, ops, initPass, cachedAt, saved>>

\* the beta's ui.js, handleCancel: callback(null)
handleCancel(p) ==
    /\ ui = "beta"
    /\ proc[p].pc = "prompt"
    /\ resolveNull(p, "cancelled", {})
    /\ UNCHANGED <<lruVars, betaVars, ui, db, meta, history, nextId, now, rng,
                   sessionStore, localStore, ops, initPass, saved>>

\* the beta's ui.js, handleSubmit: sessionStorage.setItem when the box is
\* checked, then callback(passphrase); the callback's remember is undefined
handleSubmit(p, typed, checked) ==
    /\ ui = "beta"
    /\ proc[p].pc = "prompt"
    /\ LET passphrase == sanitizeInputBeta(Trim(typed))
       IN  IF passphrase = <<>>
               THEN UNCHANGED <<proc, sessionStore>>
               ELSE /\ sessionStore' = IF checked THEN passphrase ELSE sessionStore
                    /\ Submitted(p, passphrase, FALSE)
    /\ UNCHANGED <<lruVars, betaVars, ui, db, meta, history, nextId, _cachedKey, _keyExpiry, now, rng,
                   last, localStore, ops, initPass, cachedAt, saved>>

Verifies_always(plain) == TRUE

Verifies_tagOnly(plain) == plain # OperationError

\* deriveAndVerify: if (plain !== VERIFY_PLAIN) throw; a rejected decryption
\* throws as well
Verifies(plain) == plain # OperationError /\ plain = VERIFY_PLAIN

\* deriveAndVerify, no record read: create the master record
deriveAndVerifyCreate(p) ==
    /\ proc[p].pc = "derive"
    /\ proc[p].record = NoMeta
    /\ LET salt == getRandomValues(32, rng)
           key == deriveKey(proc[p].pass, salt)
           e == aesEncrypt(VERIFY_PLAIN, key, rng + 1)
       IN  /\ meta' = Put(meta, 1, [salt |-> salt, iv |-> e.iv,
                                     encryptedData |-> e.encryptedData])
           /\ rng' = e.rng
           /\ initPass' = proc[p].pass
           /\ Resolved(p, key, "created")
    /\ UNCHANGED <<lruVars, betaVars, ui, db, history, nextId, now, sessionStore, localStore, ops, saved>>

\* deriveAndVerify, record read: verify against it.  deriveKey on a record
\* without salt throws outside the try; everything thrown inside the try,
\* by aesDecrypt or by the comparison, becomes 'incorrect-password'.
deriveAndVerifyCheck(p) ==
    /\ proc[p].pc = "derive"
    /\ proc[p].record # NoMeta
    /\ LET record == proc[p].record[1]
           key == deriveKey(proc[p].pass, record.salt)
           plain == aesDecrypt(record.iv, record.encryptedData, key)
       IN  IF record.salt = NoBytes
               THEN resolveNull(p, "failed", {"Key derivation failed."})
           ELSE IF Verifies(plain)
               THEN Resolved(p, key, "verified")
               ELSE resolveNull(p, "rejected", {"Wrong master password."})
    /\ UNCHANGED <<lruVars, betaVars, ui, db, meta, history, nextId, now, rng, sessionStore, localStore,
                   ops, initPass, saved>>

\* enforceLimit: one readwrite transaction on 'history'
enforceLimit(p) ==
    /\ proc[p].pc = "enforce"
    /\ LET all == DOMAIN history
           gone == Oldest(all, EvictCount(Cardinality(all)))
       IN  /\ history' = Remove(history, gone)
           /\ saved' = Remove(saved, gone)
           /\ proc' = [proc EXCEPT ![p] = [@ EXCEPT !.pc = "insert", !.all = all]]
    /\ UNCHANGED <<lruVars, betaVars, ui, db, meta, nextId, _cachedKey, _keyExpiry, now, rng, last,
                   sessionStore, localStore, ops, initPass, cachedAt>>

\* addToHistory after enforceLimit: aesEncrypt, add, commit
addEntry(p) ==
    /\ proc[p].pc = "insert"
    /\ LET e == aesEncrypt(proc[p].value, proc[p].key, rng)
       IN  /\ history' = Put(history, nextId,
                   [type |-> EntryType, iv |-> e.iv, encryptedData |-> e.encryptedData])
           /\ rng' = e.rng
    /\ saved' = Put(saved, nextId,
           [value |-> proc[p].value, pass |-> TextDecode(proc[p].key.pw)])
    /\ nextId' = nextId + 1
    /\ proc' = [proc EXCEPT ![p] = [@ EXCEPT !.pc = "saved", !.id = nextId]]
    /\ UNCHANGED <<lruVars, betaVars, ui, db, meta, _cachedKey, _keyExpiry, now, last, sessionStore,
                   localStore, ops, initPass, cachedAt>>

\* addToHistory after the transaction of the add completed: toast('Saved!')
toastSaved(p) ==
    /\ proc[p].pc = "saved"
    /\ End(p, Ended(proc[p], {"Saved!"}, FALSE, <<>>))
    /\ UNCHANGED <<lruVars, betaVars, ui, db, meta, history, nextId, _cachedKey, _keyExpiry, now, rng,
                   sessionStore, localStore, ops, initPass, cachedAt, saved>>

\* as itemNotFound, but the cache slot is cleared as in the catch
itemNotFound_clearCache(p) ==
    /\ End(p, Ended(proc[p], {"Item not found."}, FALSE, <<>>))
    /\ _cachedKey' = clearKeyCache.key
    /\ _keyExpiry' = clearKeyCache.expiry
    /\ cachedAt' = 0

\* viewItem, the get returned no item: toast, re-enable the button, return
itemNotFound(p) ==
    /\ End(p, Ended(proc[p], {"Item not found."}, FALSE, <<>>))
    /\ UNCHANGED <<_cachedKey, _keyExpiry, cachedAt>>

\* viewItem after getMasterKey: read the entry and decrypt it
viewDecrypt(p) ==
    /\ proc[p].pc = "view"
    /\ LET id == proc[p].id
           plain == IF id \in DOMAIN history
                        THEN aesDecrypt(history[id].iv, history[id].encryptedData,
                                        proc[p].key)
                        ELSE OperationError
       IN  IF id \notin DOMAIN history
               THEN itemNotFound(p)
           ELSE IF plain # OperationError
               THEN /\ End(p, Ended(proc[p], {}, TRUE, plain))
                    /\ UNCHANGED <<_cachedKey, _keyExpiry, cachedAt>>
           ELSE /\ End(p, Ended(proc[p], {"Decryption failed"}, FALSE, <<>>))
                /\ _cachedKey' = clearKeyCache.key
                /\ _keyExpiry' = clearKeyCache.expiry
                /\ cachedAt' = 0
    /\ UNCHANGED <<lruVars, betaVars, ui, db, meta, history, nextId, now, rng, sessionStore, localStore,
                   ops, initPass, saved>>

\* deleteItem after getMasterKey
deleteEntry(p) ==
    /\ proc[p].pc = "delete"
    /\ history' = Remove(history, {proc[p].id})
    /\ saved' = Remove(saved, {proc[p].id})
    /\ End(p, Ended(proc[p], {"Entry deleted."}, FALSE, <<>>))
    /\ UNCHANGED <<lruVars, betaVars, ui, db, meta, nextId, _cachedKey, _keyExpiry, now, rng,
                   sessionStore, localStore, ops, initPass, cachedAt>>

\* clearAll, confirmed: clearKeyCache and the transaction clearing 'history'
clearAll(p) ==
    /\ proc[p].pc = "idle"
    /\ db
    /\ ops < MaxOps
    /\ ops' = ops + 1
    /\ _cachedKey' = clearKeyCache.key
    /\ _keyExpiry' = clearKeyCache.expiry
    /\ cachedAt' = 0
    /\ history' = Remove(history, DOMAIN history)
    /\ saved' = Remove(saved, DOMAIN saved)
    /\ proc' = [proc EXCEPT ![p] = [IdleProc EXCEPT !.op = "clear", !.pc = "clear", !.pre = Pre]]
    /\ last' = NoCall
    /\ UNCHANGED <<lruVars, betaVars, ui, db, meta, nextId, now, rng, sessionStore, localStore, initPass>>

\* tx1.oncomplete of clearAll: the transaction clearing 'meta', then the toast
clearMeta(p) ==
    /\ proc[p].pc = "clear"
    /\ meta' = NoMeta
    /\ initPass' = <<>>
    /\ End(p, Ended(proc[p], {"Vault cleared."}, FALSE, <<>>))
    /\ UNCHANGED <<lruVars, betaVars, ui, db, history, nextId, _cachedKey, _keyExpiry, now, rng,
                   sessionStore, localStore, ops, cachedAt, saved>>

\* Time passes.  The clock is only ever compared with the stored expiry, so
\* that time which passes while no key is cached changes nothing: the model
\* lets time pass only while a key is cached.
Tick ==
    /\ _cachedKey # NullKey
    /\ now < MaxTicks * TickMs
    /\ now' = now + TickMs
    /\ UNCHANGED <<lruVars, betaVars, ui, db, meta, history, nextId, _cachedKey, _keyExpiry, rng, proc,
                   last, sessionStore, localStore, ops, initPass, cachedAt, saved>>

\* typeof window.HistoryManager !== 'undefined': no script of the repository
\* assigns window.HistoryManager (history.js sets window.PasswordHistoryManager)
HistoryManager == FALSE

\* saveToHistory of the generator pages that call window.HistoryManager:
\* currentResult.value is value
saveToHistory(value) ==
    /\ ops < MaxOps
    /\ ops' = ops + 1
    /\ \A p \in Procs : proc[p].pc = "idle"
    /\ LET r == [IdleProc EXCEPT !.op = "saveToHistory", !.value = value]
           item == [value |-> value, type |-> EntryType, timestamp |-> now]
           added == <<item>> \o localStore
       IN  IF value = <<>>
               THEN /\ last' = Ended(r, {"No result to save"}, FALSE, <<>>)
                    /\ UNCHANGED localStore
           ELSE IF HistoryManager
               THEN /\ last' = Ended(r, {"Saved to history!"}, FALSE, <<>>)
                    /\ UNCHANGED localStore
           ELSE /\ localStore' = IF Len(added) > FALLBACK_MAX
                                     THEN SubSeq(added, 1, FALLBACK_MAX) ELSE added
                /\ last' = Ended(r, {"Saved to history!"}, FALSE, <<>>)
    /\ UNCHANGED <<lruVars, betaVars, ui, db, meta, history, nextId, _cachedKey, _keyExpiry, now, rng,
                   proc, sessionStore, initPass, cachedAt, saved>>

----------------------------------------------------------------------------
\* Calls in flight together, interleaved at their awaits
Next ==
    \/ ops < MaxCalls /\ \E p \in Procs, v \in Values \cup {<<>>} : addToHistory(p, v)
    \/ ops < MaxCalls /\ \E p \in Procs, id \in Rows : viewItem(p, id)
    \/ ops < MaxCalls /\ \E p \in Procs, id \in Rows : deleteItem(p, id)
    \/ \E p \in Procs : onCancel(p)
    \/ \E p \in Procs, t \in Typed, c \in BOOLEAN : onSubmit(p, t, c)
    \/ \E p \in Procs : handleCancel(p)
    \/ \E p \in Procs, t \in Typed, c \in BOOLEAN : handleSubmit(p, t, c)
    \/ \E p \in Procs : deriveAndVerifyCreate(p)
    \/ \E p \in Procs : deriveAndVerifyCheck(p)
    \/ \E p \in Procs : enforceLimit(p)
    \/ \E p \in Procs : addEntry(p)
    \/ \E p \in Procs : toastSaved(p)
    \/ \E p \in Procs : viewDecrypt(p)
    \/ \E p \in Procs : deleteEntry(p)
    \/ ops < MaxCalls /\ \E p \in Procs : clearAll(p)
    \/ \E p \in Procs : clearMeta(p)
    \/ Tick

Spec == Init /\ [][Next]_vars

\* One call at a time: every call runs in slot 1 and ends before the next starts
NextSeq ==
    \/ \E v \in Values \cup {<<>>} : addToHistory(1, v)
    \/ \E id \in Rows : viewItem(1, id)
    \/ \E id \in Rows : deleteItem(1, id)
    \/ onCancel(1)
    \/ \E t \in Typed, c \in BOOLEAN : onSubmit(1, t, c)
    \/ handleCancel(1)
    \/ \E t \in Typed, c \in BOOLEAN : handleSubmit(1, t, c)
    \/ deriveAndVerifyCreate(1)
    \/ deriveAndVerifyCheck(1)
    \/ enforceLimit(1)
    \/ addEntry(1)
    \/ toastSaved(1)
    \/ viewDecrypt(1)
    \/ deleteEntry(1)
    \/ clearAll(1)
    \/ clearMeta(1)
    \/ Tick

SpecSeq == Init /\ [][NextSeq]_vars

\* A generator page whose save button runs saveToHistory, beside the vault
NextApp ==
    \/ NextSeq
    \/ \E v \in Values \cup {<<>>} : saveToHistory(v)

SpecApp == Init /\ [][NextApp]_vars

----------------------------------------------------------------------------
\* Requests that fail: an IndexedDB request or transaction that ends in an
\* error, or a WebCrypto call that rejects, lands in the catch of the call.

\* getMasterKey, catch of deriveAndVerify with another error: the read or
\* the put of the master record failed
deriveAndVerifyFails(p) ==
    /\ proc[p].pc = "derive"
    /\ resolveNull(p, "failed", {"Key derivation failed."})
    /\ UNCHANGED <<lruVars, betaVars, ui, db, meta, history, nextId, now, rng, sessionStore, localStore,
                   ops, initPass, saved>>

\* addToHistory, catch: enforceLimit threw; its transaction wrote nothing
enforceLimitFails(p) ==
    /\ proc[p].pc = "enforce"
    /\ End(p, Ended(proc[p], {"Save failed"}, FALSE, <<>>))
    /\ UNCHANGED <<lruVars, betaVars, ui, db, meta, history, nextId, _cachedKey, _keyExpiry, now, rng,
                   sessionStore, localStore, ops, initPass, cachedAt, saved>>

\* addToHistory, catch: aesEncrypt or the transaction of the add threw
addEntryFails(p) ==
    /\ proc[p].pc = "insert"
    /\ rng' = rng + 1
    /\ End(p, Ended(proc[p], {"Save failed"}, FALSE, <<>>))
    /\ UNCHANGED <<lruVars, betaVars, ui, db, meta, history, nextId, _cachedKey, _keyExpiry, now,
                   sessionStore, localStore, ops, initPass, cachedAt, saved>>

\* viewItem, catch: the read of the entry or its decryption threw
viewItemFails(p) ==
    /\ proc[p].pc = "view"
    /\ End(p, Ended(proc[p], {"Decryption failed"}, FALSE, <<>>))
    /\ _cachedKey' = clearKeyCache.key
    /\ _keyExpiry' = clearKeyCache.expiry
    /\ cachedAt' = 0
    /\ UNCHANGED <<lruVars, betaVars, ui, db, meta, history, nextId, now, rng, sessionStore, localStore,
                   ops, initPass, saved>>

\* deleteItem, catch: the transaction of the delete threw
deleteItemFails(p) ==
    /\ proc[p].pc = "delete"
    /\ End(p, Ended(proc[p], {"Delete failed."}, FALSE, <<>>))
    /\ UNCHANGED <<lruVars, betaVars, ui, db, meta, history, nextId, _cachedKey, _keyExpiry, now, rng,
                   sessionStore, localStore, ops, initPass, cachedAt, saved>>

\* One call at a time, with requests that may fail
NextFail ==
    \/ NextSeq
    \/ deriveAndVerifyFails(1)
    \/ enforceLimitFails(1)
    \/ addEntryFails(1)
    \/ viewItemFails(1)
    \/ deleteItemFails(1)

SpecFail == Init /\ [][NextFail]_vars

----------------------------------------------------------------------------
\* A page load on a store whose master record was not written by this
\* deriveAndVerify: the record of passphrase "p" as written, one whose
\* ciphertext holds another marker, and records with a field missing.

MasterRecords ==
    LET good == SavedMeta(<<112>>)[1]
    IN  {good,
         [good EXCEPT !.encryptedData.pt = <<120>>],
         [good EXCEPT !.salt = NoBytes],
         [good EXCEPT !.iv = NoBytes],
         [good EXCEPT !.encryptedData = NoCipher]}

InitVerify ==
    /\ ui \in {"v2.2", "beta"}
    /\ db = TRUE
    /\ meta \in {[i \in {1} |-> r] : r \in MasterRecords}
    /\ history = [i \in {1} |-> SavedEntry(<<97>>, <<112>>, i)]
    /\ saved = [i \in {1} |-> [value |-> <<97>>, pass |-> <<112>>]]
    /\ nextId = 2
    /\ rng = 3
    /\ initPass = <<112>>
    /\ _cachedKey = NullKey
    /\ _keyExpiry = NullExpiry
    /\ cachedAt = 0
    /\ now = 0
    /\ proc = [p \in Procs |-> IdleProc]
    /\ last = NoCall
    /\ sessionStore = NoItem
    /\ localStore = <<>>
    /\ ops = 0
    /\ LRUCache(0)
    /\ PasswordHistoryManager(NoItem)
    /\ dateNow = 0

SpecVerify == InitVerify /\ [][NextSeq]_vars

----------------------------------------------------------------------------
\* LRUCache of the generator pages (strengthCache)

MaxCapacity == 3

\* keys are the strings the callers pass (passwords); get is also given null
LRUKeys == {"a", "b", "c", "d"}

LRUValues == {"weak", "strong"}

\* the elements of a sequence
Range(s) == {s[i] : i \in DOMAIN s}

\* Set.delete(key)
SetDelete(order, key) == SelectSeq(order, LAMBDA k : k # key)

\* Set.add(key): a key already in the set keeps its place
SetAdd(order, key) == IF key \in Range(order) THEN order ELSE Append(order, key)

\* as MoveToEnd, but without the delete: the key keeps its place
MoveToEnd_keepPlace(order, key) == SetAdd(order, key)

\* keyOrder.delete(key); keyOrder.add(key)
MoveToEnd(order, key) == SetAdd(SetDelete(order, key), key)

\* Map.set(key, value)
MapSet(map, key, value) ==
    [k \in DOMAIN map \cup {key} |-> IF k = key THEN value ELSE map[k]]

\* Map.delete(key)
MapDelete(map, key) == [k \in DOMAIN map \ {key} |-> map[k]]

\* the use of a key, recorded in the history variable
Used(key) == Append(SelectSeq(uses, LAMBDA k : k # key), key)

\* LRUCache.get(key)
get(key) ==
    /\ IF key = Null \/ key \notin DOMAIN cache
           THEN /\ out' = Null
                /\ UNCHANGED <<keyOrder, uses>>
           ELSE /\ out' = cache[key]
                /\ keyOrder' = MoveToEnd(keyOrder, key)
                /\ uses' = Used(key)
    /\ UNCHANGED <<vaultVars, betaVars, capacity, cache>>

\* LRUCache.set(key, value)
set(key, value) ==
    /\ LET order == IF key \in DOMAIN cache THEN SetDelete(keyOrder, key) ELSE keyOrder
           map == MapSet(cache, key, value)
           added == SetAdd(order, key)
           oldestKey == Head(added)
       IN  IF Cardinality(DOMAIN map) > capacity
               THEN /\ keyOrder' = SetDelete(added, oldestKey)
                    /\ cache' = MapDelete(map, oldestKey)
               ELSE /\ keyOrder' = added
                    /\ cache' = map
    /\ uses' = Used(key)
    /\ UNCHANGED <<vaultVars, betaVars, capacity, out>>

\* A generator page: one LRUCache of capacity 1..MaxCapacity; the vault idle
InitLRU ==
    /\ InitVault
    /\ ui = "v2.2"
    /\ db = FALSE
    /\ \E c \in 1..MaxCapacity : LRUCache(c)
    /\ PasswordHistoryManager(NoItem)
    /\ dateNow = 0

NextLRU ==
    \/ \E key \in LRUKeys \cup {Null} : get(key)
    \/ \E key \in LRUKeys, value \in LRUValues : set(key, value)

SpecLRU == InitLRU /\ [][NextLRU]_vars

----------------------------------------------------------------------------
\* The beta's history.js (PasswordHistoryManager of the beta) with the beta's
\* ui.js.  The stored history is the record (salt, iv, ciphertext) that
\* encryptData packs into one base64 string; the ciphertext records the
\* array it was made from.  The error log in localStorage is not modelled.

MAX_HISTORY_beta == 10
RATE_LIMIT_MS == 1000
MAX_DELETED == 5
UNDO_MS == 5000
VALID_TYPES == {"password", "pin", "phrase"}

MaxBetaOps == 4
MaxBetaTicks == 6

INVALID_TYPE == "Invalid history item type."
NO_PASSPHRASE == "Please set an encryption passphrase."
INVALID_PASSPHRASE == "Invalid encryption passphrase."
DECRYPTION_FAILED == "Decryption failed. Incorrect passphrase or corrupted history."
WEAK_PASSPHRASE == "Passphrase is too weak. Please use a stronger passphrase."
RATE_LIMIT == "Please wait before performing another action."

\* what the generator hands to addToHistory: "a", "<b"
BetaValues == {<<97>>, <<60, 98>>}
BetaTypes == {"password", "note"}

\* what is typed into the passphrase modal: "P1", "Q2", "w", " "
BetaTyped == {<<80, 49>>, <<81, 50>>, <<119>>, <<32>>}

\* what is typed into the confirm modal: "P1", "Q2", nothing
ConfirmTyped == {<<80, 49>>, <<81, 50>>, <<>>}

\* sanitizeValue: the characters < > & " ' are removed
sanitizeValue(value) == SelectSeq(value, LAMBDA c : c \notin {60, 62, 38, 34, 39})

\* zxcvbn(passphrase).score; zxcvbn is a library outside the repository: the
\* one-character passphrase scores below 3, the others 3
zxcvbnScore(passphrase) == IF Len(passphrase) >= 2 THEN 3 ELSE 1

deriveKeyFromPassphrase(passphrase, salt) ==
    [pw |-> TextEncode(passphrase), salt |-> salt]

\* encryptData(data, passphrase), its two random draws starting at draw r
encryptData(data, passphrase, r) ==
    LET salt == getRandomValues(16, r)
        iv == getRandomValues(12, r + 1)
    IN  [salt |-> salt, iv |-> iv,
         data |-> [pt |-> data, key |-> deriveKeyFromPassphrase(passphrase, salt),
                   iv |-> iv]]

\* decryptData(encryptedData, passphrase): ok is FALSE where it returns null
decryptData(encryptedData, passphrase) ==
    LET key == deriveKeyFromPassphrase(passphrase, encryptedData.salt)
    IN  IF encryptedData.data.key = key /\ encryptedData.data.iv = encryptedData.iv
            THEN [ok |-> TRUE, data |-> encryptedData.data.pt]
            ELSE [ok |-> FALSE, data |-> <<>>]

\* loadHistory(passphrase): its return value, the array after it and the
\* message of decryptData's catch
loadHistory(passphrase) ==
    IF secureGeneratorHistory = NoItem
        THEN [valid |-> FALSE, list |-> <<>>, shown |-> {}]
    ELSE LET decrypted == decryptData(secureGeneratorHistory, passphrase)
         IN  IF decrypted.ok
                 THEN [valid |-> TRUE, list |-> decrypted.data, shown |-> {}]
                 ELSE [valid |-> FALSE, list |-> passwordHistory,
                       shown |-> {DECRYPTION_FAILED}]

\* saveHistory(passphrase) of the array list
saveHistory(list, passphrase) ==
    /\ secureGeneratorHistory' = encryptData(list, passphrase, betaRng)
    /\ betaRng' = betaRng + 2

\* Array.splice(index, 1)
SpliceOut(list, index) ==
    SubSeq(list, 1, index) \o SubSeq(list, index + 2, Len(list))

\* Array.splice(index, 0, item): an index past the end appends
SpliceIn(list, index, item) ==
    LET at == IF index > Len(list) THEN Len(list) ELSE index
    IN  SubSeq(list, 1, at) \o <<item>> \o SubSeq(list, at + 1, Len(list))

\* throttle: TRUE when the wrapped function is not run
Throttled == dateNow - lastActionTime < RATE_LIMIT_MS

\* addToHistory(value, type) of the beta: opens the passphrase modal
beta_addToHistory(value, type) ==
    /\ modal = NoModal
    /\ betaOps < MaxBetaOps
    /\ betaOps' = betaOps + 1
    /\ IF Throttled
           THEN /\ messages' = {RATE_LIMIT}
                /\ UNCHANGED <<lastActionTime, modal>>
           ELSE /\ lastActionTime' = dateNow
                /\ IF type \notin VALID_TYPES
                       THEN messages' = {INVALID_TYPE} /\ UNCHANGED modal
                       ELSE /\ messages' = {}
                            /\ modal' = [kind |-> "passphrase",
                                         item |-> [value |-> sanitizeValue(value),
                                                   type |-> type,
                                                   timestamp |-> dateNow]]
    /\ UNCHANGED <<vaultVars, lruVars, passwordHistory, deletedItems, tempPassphrase,
                   dateNow, secureGeneratorHistory, undoOptions, betaRng>>

\* the callback addToHistory gave to showPassphraseModal, called with a
\* non-empty passphrase
addCallback(passphrase) ==
    IF zxcvbnScore(passphrase) < 3
        THEN /\ messages' = {WEAK_PASSPHRASE}
             /\ UNCHANGED <<passwordHistory, secureGeneratorHistory, betaRng>>
    ELSE LET loaded == loadHistory(passphrase)
             added == <<modal.item>> \o loaded.list
             kept == IF Len(added) > MAX_HISTORY_beta
                         THEN SubSeq(added, 1, Len(added) - 1) ELSE added
         IN  IF ~loaded.valid
                 THEN /\ messages' = loaded.shown \cup {INVALID_PASSPHRASE}
                      /\ passwordHistory' = loaded.list
                      /\ UNCHANGED <<secureGeneratorHistory, betaRng>>
                 ELSE /\ messages' = {}
                      /\ passwordHistory' = kept
                      /\ saveHistory(kept, passphrase)

\* the beta's ui.js, handleSubmit, and the callback of addToHistory
beta_handleSubmit(typed, checked) ==
    /\ modal.kind = "passphrase"
    /\ LET passphrase == sanitizeInputBeta(Trim(typed))
       IN  IF passphrase = <<>>
               THEN UNCHANGED <<sessionStore, modal, messages, passwordHistory,
                                secureGeneratorHistory, betaRng>>
               ELSE /\ sessionStore' = IF checked THEN passphrase ELSE sessionStore
                    /\ modal' = NoModal
                    /\ addCallback(passphrase)
    /\ tempPassphrase' = Null
    /\ UNCHANGED <<lruVars, ui, db, meta, history, nextId, _cachedKey, _keyExpiry, now,
                   rng, proc, last, localStore, ops, initPass, cachedAt, saved,
                   deletedItems, lastActionTime, dateNow, undoOptions, betaOps>>

\* the beta's ui.js, handleCancel: callback(null)
beta_handleCancel ==
    /\ modal.kind = "passphrase"
    /\ modal' = NoModal
    /\ messages' = {NO_PASSPHRASE}
    /\ UNCHANGED <<vaultVars, lruVars, passwordHistory, deletedItems, tempPassphrase,
                   lastActionTime, dateNow, secureGeneratorHistory, undoOptions,
                   betaRng, betaOps>>

\* the rows updateHistoryUI rendered: one delete button per item
deleteBtnClick(index) ==
    /\ modal = NoModal
    /\ index < Len(passwordHistory)
    /\ betaOps < MaxBetaOps
    /\ betaOps' = betaOps + 1
    /\ modal' = [kind |-> "confirm", index |-> index]
    /\ messages' = {}
    /\ UNCHANGED <<vaultVars, lruVars, passwordHistory, deletedItems, tempPassphrase,
                   lastActionTime, dateNow, secureGeneratorHistory, undoOptions,
                   betaRng>>

\* removeFromHistory(index, passphrase), throttled
removeFromHistory(index, passphrase) ==
    IF Throttled
        THEN /\ messages' = {RATE_LIMIT}
             /\ UNCHANGED <<lastActionTime, passwordHistory, deletedItems,
                            secureGeneratorHistory, undoOptions, betaRng>>
    ELSE /\ lastActionTime' = dateNow
         /\ messages' = {}
         /\ IF index >= 0 /\ index < Len(passwordHistory)
                THEN LET deletedItem == passwordHistory[index + 1]
                         pushed == Append(deletedItems,
                                          [item |-> deletedItem, index |-> index])
                         left == SpliceOut(passwordHistory, index)
                     IN  /\ passwordHistory' = left
                         /\ deletedItems' = IF Len(pushed) > MAX_DELETED
                                                THEN Tail(pushed) ELSE pushed
                         /\ saveHistory(left, passphrase)
                         /\ undoOptions' = undoOptions \cup
                                {[index |-> index, deletedItem |-> deletedItem,
                                  passphrase |-> passphrase, shownAt |-> dateNow]}
                ELSE UNCHANGED <<passwordHistory, deletedItems,
                                 secureGeneratorHistory, undoOptions, betaRng>>

\* the confirm button of the delete button's showConfirmModal: the callback
\* gets the value of the modal's passphrase field as it was typed
confirmBtnClick(typed) ==
    /\ modal.kind = "confirm"
    /\ modal' = NoModal
    /\ removeFromHistory(modal.index, typed)
    /\ tempPassphrase' = Null
    /\ UNCHANGED <<vaultVars, lruVars, dateNow, betaOps>>

\* the cancel button of showConfirmModal, or Escape: callback(false, null)
cancelBtnClick ==
    /\ modal.kind = "confirm"
    /\ modal' = NoModal
    /\ UNCHANGED <<vaultVars, lruVars, passwordHistory, deletedItems, tempPassphrase,
                   lastActionTime, dateNow, secureGeneratorHistory, undoOptions,
                   messages, betaRng, betaOps>>

\* the undo button of showUndoOption: the closure removeFromHistory made
undoBtnClick(u) ==
    /\ u \in undoOptions
    /\ dateNow < u.shownAt + UNDO_MS
    /\ betaOps < MaxBetaOps
    /\ betaOps' = betaOps + 1
    /\ LET restored == SpliceIn(passwordHistory, u.index, u.deletedItem)
       IN  /\ passwordHistory' = restored
           /\ saveHistory(restored, u.passphrase)
    /\ deletedItems' = IF deletedItems = <<>> THEN deletedItems
                        ELSE SubSeq(deletedItems, 1, Len(deletedItems) - 1)
    /\ undoOptions' = undoOptions \ {u}
    /\ UNCHANGED <<vaultVars, lruVars, tempPassphrase, lastActionTime, dateNow,
                   modal, messages>>

\* showUndoOption's timer: the undo message is removed after UNDO_MS
undoRemoved(u) ==
    /\ u \in undoOptions
    /\ dateNow >= u.shownAt + UNDO_MS
    /\ undoOptions' = undoOptions \ {u}
    /\ UNCHANGED <<vaultVars, lruVars, passwordHistory, deletedItems, tempPassphrase,
                   lastActionTime, dateNow, secureGeneratorHistory, modal, messages,
                   betaRng, betaOps>>

\* Time passes on the beta page
betaTick ==
    /\ dateNow < RATE_LIMIT_MS * (1 + MaxBetaTicks)
    /\ dateNow' = dateNow + RATE_LIMIT_MS
    /\ UNCHANGED <<vaultVars, lruVars, passwordHistory, deletedItems, tempPassphrase,
                   lastActionTime, secureGeneratorHistory, modal, undoOptions,
                   messages, betaRng, betaOps>>

\* the passphrase of the history found in localStorage: "P1"
StoredPassphrase == <<80, 49>>

\* a history of n items as saveHistory stored it under StoredPassphrase
StoredHistory(n) ==
    [salt |-> getRandomValues(16, -2), iv |-> getRandomValues(12, -1),
     data |-> [pt |-> [i \in 1..n |-> [value |-> <<97>>, type |-> "password",
                                       timestamp |-> 0 - i]],
               key |-> deriveKeyFromPassphrase(StoredPassphrase,
                                               getRandomValues(16, -2)),
               iv |-> getRandomValues(12, -1)]]

\* The beta page: nothing stored yet, or a stored history of 1 or
\* MAX_HISTORY_beta items; the vault idle
InitBeta ==
    /\ InitVault
    /\ ui = "beta"
    /\ db = FALSE
    /\ LRUCache(0)
    /\ \E store \in {NoItem, StoredHistory(1), StoredHistory(MAX_HISTORY_beta)} :
           PasswordHistoryManager(store)
    /\ dateNow = RATE_LIMIT_MS

NextBeta ==
    \/ \E value \in BetaValues, type \in BetaTypes : beta_addToHistory(value, type)
    \/ \E typed \in BetaTyped, checked \in BOOLEAN : beta_handleSubmit(typed, checked)
    \/ beta_handleCancel
    \/ \E index \in {0, 1, MAX_HISTORY_beta - 1} : deleteBtnClick(index)
    \/ \E typed \in ConfirmTyped : confirmBtnClick(typed)
    \/ cancelBtnClick
    \/ \E u \in undoOptions : undoBtnClick(u)
    \/ \E u \in undoOptions : undoRemoved(u)
    \/ betaTick

SpecBeta == InitBeta /\ [][NextBeta]_vars

----------------------------------------------------------------------------
\* Properties

SessionMs == 30 * 60 * 1000

\* the calls in flight and the one that ended last
Calls == {proc[p] : p \in Procs} \cup {last.call}

\* C1: on an initialized vault deriveAndVerify returns a key exactly when it
\* is given the passphrase that initialized the vault; with any other
\* passphrase it fails with 'incorrect-password' and returns no key.
C1_WrongPasswordRejected ==
    /\ \A c \in Calls : c.auth = "verified" =>
           /\ c.pass = initPass
           /\ c.key # NullKey
           /\ meta # NoMeta
           /\ c.key = deriveKey(initPass, meta[1].salt)
    /\ last.call.auth = "rejected" =>
           /\ last.call.pass # initPass
           /\ last.call.key = NullKey
           /\ "Wrong master password." \in last.toasts

\* a call given "q" on the vault that "p" initialized was rejected
C1_Witness ==
    /\ last.call.auth = "rejected"
    /\ last.call.pass = <<113>>
    /\ initPass = <<112>>

\* C2: with calls run one at a time, a reveal of an entry that is still
\* stored, with a key derived from the passphrase the entry was saved under,
\* shows exactly the value that was saved.
C2_RoundTrip ==
    (/\ last.call.op = "view"
     /\ last.call.key # NullKey
     /\ last.call.id \in DOMAIN saved
     /\ last.call.key.pw = TextEncode(saved[last.call.id].pass))
    => /\ last.shown
       /\ last.text = saved[last.call.id].value
       /\ last.toasts = {}

\* a value saved in this session is revealed with the key from the cache
C2_Witness ==
    /\ last.call.op = "view"
    /\ last.call.auth = "cached"
    /\ last.shown
    /\ last.text = <<233, 98>>

\* C3: with saves run one at a time the entries table never holds more than
\* 100 rows, also between capacity enforcement and the insert.
C3_AtMostMaxRows == Cardinality(DOMAIN history) <= 100

\* a save stands between an enforcement that evicted and its insert
C3_Witness ==
    \E p \in Procs :
        /\ proc[p].pc = "insert"
        /\ Cardinality(proc[p].all) = 100
        /\ Cardinality(DOMAIN history) = 99

\* C4: a successful save that found n entries removed the n - 99 entries
\* with the smallest ids when n >= 100 and none when n < 100; the table is
\* then the new entry and the entries that were not removed.
C4_EvictsOldest ==
    (last.call.op = "save" /\ "Saved!" \in last.toasts) =>
        LET all == last.call.all
            n == Cardinality(all)
            k == IF n >= 100 THEN n - 99 ELSE 0
            smallest == {i \in all : Cardinality({j \in all : j < i}) < k}
        IN  /\ last.call.id \notin all
            /\ DOMAIN history = (all \ smallest) \cup {last.call.id}

\* ids 1..100 were stored and the save of id 101 left ids 2..101
C4_Witness ==
    /\ "Saved!" \in last.toasts
    /\ last.call.all = 1..100
    /\ DOMAIN history = 2..101

\* C5: once a master record is stored, no step other than the reset's
\* changes it.
C5_MasterRecordImmutable ==
    [][meta # NoMeta => (meta' = meta \/ meta' = NoMeta)]_vars

\* the records stored under key k: the entries and the master record
Nonces(k) ==
    {history[i].iv : i \in {j \in DOMAIN history : history[j].encryptedData.key = k}}

StoredKeys ==
    {history[i].encryptedData.key : i \in DOMAIN history}
        \cup {meta[i].encryptedData.key : i \in DOMAIN meta}

\* C6: every stored nonce is a 12-byte draw of the random source, the one
\* its ciphertext was made with, and no two records stored under the same
\* key carry the same nonce.
C6_NonceUnique ==
    /\ \A i \in DOMAIN history :
           /\ history[i].iv.len = 12
           /\ history[i].iv.val \in 1..rng
           /\ history[i].encryptedData.iv = history[i].iv
    /\ \A i \in DOMAIN meta :
           /\ meta[i].iv.len = 12
           /\ meta[i].iv.val \in 1..rng
           /\ meta[i].encryptedData.iv = meta[i].iv
    /\ \A k \in StoredKeys :
           /\ Cardinality(Nonces(k))
                  = Cardinality({j \in DOMAIN history : history[j].encryptedData.key = k})
           /\ \A i \in DOMAIN meta :
                  meta[i].encryptedData.key = k => meta[i].iv \notin Nonces(k)

\* a master record and two entries, all written in this session under one key
C6_Witness ==
    /\ meta # NoMeta
    /\ DOMAIN history = {1, 2}
    /\ rng = 4
    /\ \A i \in DOMAIN history :
           history[i].encryptedData.key = meta[1].encryptedData.key

\* C7: getCachedKey returns the cached key exactly when a key is cached and
\* the clock is strictly before the caching time plus 30 minutes.
C7_CacheExpiry ==
    getCachedKey =
        IF _cachedKey # NullKey /\ now < cachedAt + SessionMs
            THEN _cachedKey ELSE NullKey

\* the clock stands at the expiry instant of a cached key
C7_Witness ==
    /\ _cachedKey # NullKey
    /\ now = cachedAt + SessionMs
    /\ getCachedKey = NullKey

\* C8: a step of the prompt or of deriveAndVerify writes the cache only when
\* deriveAndVerify returned a key and remember is set, and then with that
\* key; a cancelled prompt, a failed verification or remember = false leaves
\* the cached key and its expiry as they were; no other step puts a key in
\* the cache.
C8_CacheWrittenOnOptIn ==
    [][/\ \A p \in Procs :
              (proc[p].pc \in {"prompt", "derive"} /\ proc'[p] # proc[p]) =>
                  IF /\ proc[p].pc = "derive"
                     /\ proc[p].remember
                     /\ proc'[p].auth \in {"created", "verified"}
                      THEN /\ _cachedKey' = proc'[p].key
                           /\ _cachedKey' = deriveKey(proc[p].pass, meta'[1].salt)
                           /\ _keyExpiry' = now + SessionMs
                      ELSE UNCHANGED <<_cachedKey, _keyExpiry>>
       /\ (_cachedKey' # NullKey /\
           <<_cachedKey, _keyExpiry>>' # <<_cachedKey, _keyExpiry>>) =>
              \E p \in Procs : proc[p].pc = "derive" /\ proc[p].remember
      ]_vars

\* a verified passphrase with remember set put its key in the cache
C8_Witness ==
    \E p \in Procs :
        /\ proc[p].auth = "verified"
        /\ proc[p].remember
        /\ _cachedKey = proc[p].key

\* C9: no passphrase given to the prompt is written to web storage; the
\* module state keeps the derived key only.
C9_PassphraseNeverStored == sessionStore = NoItem

\* sessionStorage holds the passphrase that opens the stored vault
C9_Witness ==
    /\ meta # NoMeta
    /\ initPass # <<>>
    /\ sessionStore = initPass

\* C10: no save path writes a generated value in plaintext to web storage.
C10_NoPlaintextStored == localStore = <<>>

\* localStorage holds the generated value "a" as it was generated
C10_Witness ==
    /\ localStore # <<>>
    /\ localStore[1].value = <<97>>
    /\ "Saved to history!" \in last.toasts

\* the stores and the cache slot are as call c found them
Untouched(c) ==
    /\ meta = c.pre.meta
    /\ history = c.pre.history
    /\ _cachedKey = c.pre.key
    /\ _keyExpiry = c.pre.expiry

\* C11: when a confirmed reset has finished, with calls run one at a time,
\* the entries table is empty, there is no master record and getCachedKey
\* returns no key.
C11_ResetEmptiesVault ==
    (last.call.op = "clear" /\ "Vault cleared." \in last.toasts) =>
        /\ DOMAIN history = {}
        /\ meta = NoMeta
        /\ getCachedKey = NullKey
        /\ _cachedKey = NullKey

\* a reset of a vault that held a master record, entries and a cached key
C11_Witness ==
    /\ "Vault cleared." \in last.toasts
    /\ last.call.pre.meta # NoMeta
    /\ DOMAIN last.call.pre.history # {}
    /\ last.call.pre.key # NullKey

\* C12: a save, reveal or delete whose prompt was dismissed leaves the
\* master record, the entries table and the cache slot as they were before
\* the call, and shows nothing.
C12_CancelChangesNothing ==
    last.call.auth = "cancelled" =>
        /\ Untouched(last.call)
        /\ ~last.shown
        /\ last.call.key = NullKey

\* a delete was cancelled at the prompt while an expired key sat in the slot
C12_Witness ==
    /\ last.call.auth = "cancelled"
    /\ last.call.op = "delete"
    /\ last.call.pre.key # NullKey
    /\ DOMAIN history # {}

\* C13: on an initialized vault a save, reveal or delete that was given, at
\* the prompt, a passphrase other than the vault's never gets past the
\* verification: the master record, the entries and the cache slot stay as
\* the call found them, and nothing is shown.
C13_WrongPassphraseChangesNothing ==
    \A c \in Calls :
        (/\ c.op \in {"save", "view", "delete"}
         /\ c.pre.meta # NoMeta
         /\ c.pass # <<>>
         /\ c.pass # initPass) =>
            /\ Untouched(c)
            /\ c.pc \in {"derive", "idle"}
            /\ c.key = NullKey
            /\ c = last.call =>
                   /\ ~last.shown
                   /\ "Wrong master password." \in last.toasts
                   /\ "Saved!" \notin last.toasts
                   /\ "Entry deleted." \notin last.toasts

\* a delete of a stored entry was given "q" on the vault of "p"
C13_Witness ==
    /\ last.call.op = "delete"
    /\ last.call.auth = "rejected"
    /\ last.call.pass = <<113>>
    /\ last.call.id \in DOMAIN history
    /\ initPass = <<112>>

\* C14: a save that failed after it had its key left the entries table as
\* it found it: no entry added, none evicted.
C14_FailedSaveChangesNoEntry ==
    (last.call.op = "save" /\ "Save failed" \in last.toasts) =>
        history = last.call.pre.history

\* a save found ids 1..100, evicted id 1, then failed before its add
C14_Witness ==
    /\ last.call.op = "save"
    /\ "Save failed" \in last.toasts
    /\ DOMAIN last.call.pre.history = 1..100
    /\ DOMAIN history = 2..100

\* C15: a reveal, a delete, or a save that did not succeed, on a vault that
\* had no master record when the call started, leaves it without one.
C15_RecordOnlyBySuccessfulSave ==
    (/\ last.call.op \in {"save", "view", "delete"}
     /\ last.call.pre.meta = NoMeta
     /\ "Saved!" \notin last.toasts) =>
        meta = NoMeta

\* a save on an empty vault failed and left a master record behind
C15_Witness ==
    /\ last.call.op = "save"
    /\ "Save failed" \in last.toasts
    /\ last.call.pre.meta = NoMeta
    /\ meta # NoMeta
    /\ DOMAIN history = {}

\* C16: a reveal that ends in the catch of viewItem shows no plaintext and
\* leaves the cache slot empty, and the next save, reveal or delete that
\* asks for a key goes to the prompt.
C16_DecryptFailureClearsCache ==
    [][/\ "Decryption failed" \in last'.toasts =>
              /\ ~last'.shown
              /\ last'.text = <<>>
              /\ _cachedKey' = NullKey
              /\ _keyExpiry' = NullExpiry
       /\ \A p \in Procs :
              (/\ "Decryption failed" \in last.toasts
               /\ proc[p].pc = "idle"
               /\ proc'[p].pc # "idle"
               /\ proc'[p].op \in {"save", "view", "delete"}) =>
                  proc'[p].pc = "prompt"
      ]_vars

\* a reveal that ran with a live cached key failed, and the slot is empty
C16_Witness ==
    /\ "Decryption failed" \in last.toasts
    /\ last.call.auth = "cached"
    /\ last.call.pre.key # NullKey
    /\ last.call.id \in DOMAIN history
    /\ _cachedKey = NullKey

\* C17: a call that found the cached key expired (getCachedKey returned
\* null, so the call stands at the prompt) has left the cache slot empty.
C17_ExpiredKeyCleared ==
    \A p \in Procs :
        proc[p].pc = "prompt" => (_cachedKey = NullKey /\ _keyExpiry = NullExpiry)

\* a call stands at the prompt while the expired key is still in the slot
C17_Witness ==
    \E p \in Procs :
        /\ proc[p].pc = "prompt"
        /\ _cachedKey # NullKey
        /\ now >= _keyExpiry
        /\ getCachedKey = NullKey

\* the steps a call makes only with a key
KeyedPc == {"enforce", "insert", "saved", "view", "delete"}

C19_SaveOrdering ==
    [][/\ DOMAIN history' \ DOMAIN history # {} =>
              \E p \in Procs :
                  /\ proc[p].pc = "insert"
                  /\ proc'[p].pc = "saved"
                  /\ DOMAIN history \subseteq proc[p].all
                  /\ Cardinality(DOMAIN history) < MAX_HISTORY
                  /\ DOMAIN history' = DOMAIN history \cup {proc'[p].id}
       /\ ("Saved!" \in last'.toasts /\ last' # last) =>
              \E p \in Procs :
                  /\ proc[p].pc = "saved"
                  /\ proc[p].id \in DOMAIN history
                  /\ history' = history
      ]_vars

\* the entry of a save that evicted is in the store, 'Saved!' not yet issued
C19_Witness ==
    \E p \in Procs :
        /\ proc[p].pc = "saved"
        /\ Cardinality(proc[p].all) = MAX_HISTORY
        /\ proc[p].id \in DOMAIN history
        /\ "Saved!" \notin last.toasts

\* C20: a delete removes an entry only with the vault's key, taken from the
\* cache slot while live or derived from a passphrase that verified; a
\* delete whose prompt was cancelled or whose passphrase was rejected
\* removes nothing.
C20_DeleteNeedsKey ==
    [][/\ \A p \in Procs :
              (proc[p].op = "delete" /\ history' # history) =>
                  /\ proc[p].pc = "delete"
                  /\ meta # NoMeta
                  /\ proc[p].key = deriveKey(initPass, meta[1].salt)
                  /\ \/ proc[p].auth = "cached" /\ proc[p].key = proc[p].pre.key
                     \/ proc[p].auth = "verified" /\ proc[p].pass = initPass
       /\ (/\ last'.call.op = "delete"
           /\ last'.call.auth \in {"cancelled", "rejected"}) =>
              history' = last'.call.pre.history
      ]_vars

\* a delete with a verified passphrase removed a stored entry
C20_Witness ==
    /\ "Entry deleted." \in last.toasts
    /\ last.call.auth = "verified"
    /\ last.call.id \in DOMAIN last.call.pre.history
    /\ last.call.id \notin DOMAIN history

\* the master record call c read has all its fields
WellFormed(c) ==
    /\ c.record # NoMeta
    /\ c.record[1].salt # NoBytes
    /\ c.record[1].iv # NoBytes
    /\ c.record[1].encryptedData # NoCipher

\* which check of deriveAndVerify the passphrase of call c fails against the
\* record it read: the authentication tag, or the comparison with the marker
Cause(c) ==
    IF c.pass = <<>> \/ ~WellFormed(c) THEN "none"
    ELSE LET record == c.record[1]
         IN  IF \/ record.encryptedData.key.pw # TextEncode(c.pass)
                \/ record.encryptedData.key.salt # record.salt
                \/ record.encryptedData.iv # record.iv
                 THEN "tag"
             ELSE IF record.encryptedData.pt # VERIFY_PLAIN THEN "mismatch"
             ELSE "none"

\* C21: a call whose passphrase fails the authentication tag and one whose
\* recovered plaintext differs from the marker end the same way: no key,
\* the 'Wrong master password.' toast (and the caller's own) and nothing
\* else, nothing shown, nothing changed.
C21_FailureCauseHidden ==
    (last.call.op \in {"save", "view", "delete"}
     /\ Cause(last.call) \in {"tag", "mismatch"}) =>
        /\ last.call.auth = "rejected"
        /\ last.call.key = NullKey
        /\ last.toasts = {"Wrong master password."}
               \cup (IF last.call.op = "save" THEN {"Save cancelled."} ELSE {})
        /\ ~last.shown
        /\ last.text = <<>>
        /\ Untouched(last.call)

\* the passphrase opened the record and the plaintext was not the marker
C21_Witness ==
    /\ Cause(last.call) = "mismatch"
    /\ last.call.auth = "rejected"
    /\ last.call.pass = <<112>>

\* C26: a call that read a master record with a missing field does not end
\* as a wrong passphrase does.
C26_MalformedRecordDistinct ==
    (last.call.pass # <<>> /\ last.call.record # NoMeta /\ ~WellFormed(last.call)) =>
        /\ last.call.auth # "rejected"
        /\ "Wrong master password." \notin last.toasts

\* the record had no iv and the call ended with 'Wrong master password.'
C26_Witness ==
    /\ last.call.record # NoMeta
    /\ last.call.record[1].iv = NoBytes
    /\ last.call.record[1].salt # NoBytes
    /\ last.call.pass = <<112>>
    /\ "Wrong master password." \in last.toasts

\* C22: a save, reveal, delete or reset that ended without showing a value
\* issued at least one toast.
C22_NoSilentEnd ==
    (last.call.op \in {"save", "view", "delete", "clear"} /\ ~last.shown) =>
        last.toasts # {}

\* a reveal whose prompt was cancelled ended without any toast
C22_Witness ==
    /\ last.call.op = "view"
    /\ last.call.auth = "cancelled"
    /\ ~last.shown
    /\ last.toasts = {}

\* C23: with two saves in flight, their steps interleaved, the entries
\* table holds at most MAX_HISTORY rows.
C23_AtMostMaxRowsInterleaved ==
    (\A p \in Procs : proc[p].op \in {"none", "save"}) =>
        Cardinality(DOMAIN history) <= MAX_HISTORY

\* two saves that both found 99 rows have both inserted
C23_Witness ==
    /\ Cardinality(DOMAIN history) = MAX_HISTORY + 1
    /\ last.call.op = "save"
    /\ Cardinality(last.call.all) = MAX_HISTORY - 1
    /\ \E p \in Procs :
           proc[p].pc = "saved" /\ Cardinality(proc[p].all) = MAX_HISTORY - 1

\* C24: the entries table is empty whenever there is no master record.
C24_NoEntryWithoutRecord == meta = NoMeta => DOMAIN history = {}

\* a save that held its key across a reset has inserted into the reset vault
C24_Witness ==
    /\ meta = NoMeta
    /\ DOMAIN history # {}
    /\ "Saved!" \in last.toasts
    /\ last.call.pre.meta # NoMeta

\* C25: whenever getCachedKey returns a key there is a master record and
\* the key is the one of that record: it has the record's salt and opens
\* the record's verification ciphertext.
C25_CachedKeyOfCurrentRecord ==
    getCachedKey # NullKey =>
        /\ meta # NoMeta
        /\ getCachedKey.salt = meta[1].salt
        /\ aesDecrypt(meta[1].iv, meta[1].encryptedData, getCachedKey) = VERIFY_PLAIN

\* the cache serves a key while the vault has no master record
C25_Witness ==
    /\ getCachedKey # NullKey
    /\ meta = NoMeta
    /\ \A p \in Procs : proc[p].pc = "idle"

\* C27: a reveal whose id has no stored entry, its read not failing, ends
\* with 'Item not found.' and not with the decryption-failure toast, shows
\* no plaintext and leaves the cache slot as it was; a reveal that ends with
\* the decryption-failure toast, and a reveal of a stored entry, never
\* reports 'Item not found.'.
C27_NotFoundDistinct ==
    [][\A p \in Procs :
         (proc[p].pc = "view" /\ proc'[p].pc = "idle") =>
            /\ (proc[p].id \notin DOMAIN history /\ ~viewItemFails(p)) =>
                   /\ last'.toasts = {"Item not found."}
                   /\ ~last'.shown
                   /\ last'.text = <<>>
                   /\ _cachedKey' = _cachedKey
                   /\ _keyExpiry' = _keyExpiry
            /\ "Decryption failed" \in last'.toasts =>
                   "Item not found." \notin last'.toasts
            /\ proc[p].id \in DOMAIN history =>
                   "Item not found." \notin last'.toasts
      ]_vars

\* a reveal of a deleted entry, run with a live cached key, ended with
\* 'Item not found.' and the key is still cached
C27_Witness ==
    /\ last.call.op = "view"
    /\ last.call.auth = "cached"
    /\ last.call.id \notin DOMAIN history
    /\ last.toasts = {"Item not found."}
    /\ ~last.shown
    /\ getCachedKey # NullKey

\* the last n elements of a sequence (all of it when it is shorter)
LastN(s, n) == IF Len(s) <= n THEN s ELSE SubSeq(s, Len(s) - n + 1, Len(s))

\* C28: an LRUCache of capacity c >= 1 holds at most c keys, exactly the c
\* most recently used ones (a get that returns a value and a set are uses);
\* a set of a new key into a full cache evicts the least recently used key
\* and no other; keyOrder and the Map have the same keys.
C28_LRUCache ==
    [][capacity >= 1 =>
         /\ Cardinality(DOMAIN cache') <= capacity
         /\ DOMAIN cache' = Range(LastN(uses', capacity))
         /\ Range(keyOrder') = DOMAIN cache'
         /\ Len(keyOrder') = Cardinality(DOMAIN cache')
         /\ \A key \in LRUKeys :
                (/\ uses' = Used(key)
                 /\ key \notin DOMAIN cache
                 /\ Cardinality(DOMAIN cache) = capacity
                 /\ cache' # cache) =>
                    DOMAIN cache' =
                        (DOMAIN cache \ {uses[Len(uses) - capacity + 1]}) \cup {key}
      ]_vars

\* capacity 2: "a" and "b" were set, a get of "a" returned its value, and the
\* set of "c" evicted "b"
C28_Witness ==
    /\ capacity = 2
    /\ uses = <<"b", "a", "c">>
    /\ keyOrder = <<"a", "c">>
    /\ DOMAIN cache = {"a", "c"}
    /\ out # Null

\* the passphrases a user of the model can type
BetaPassphrases == {sanitizeInputBeta(Trim(typed)) : typed \in BetaTyped} \cup ConfirmTyped

\* a passphrase addToHistory is to accept: not empty, strong enough, and
\* the one of the stored history where there is one
Accepted(passphrase) ==
    /\ passphrase # <<>>
    /\ zxcvbnScore(passphrase) >= 3
    /\ secureGeneratorHistory # NoItem =>
           decryptData(secureGeneratorHistory, passphrase).ok

\* C29: when the passphrase modal of an addToHistory with a valid type is
\* submitted with an accepted passphrase, the item is at the front of
\* passwordHistory and the stored history is that array encrypted under the
\* passphrase, whatever was stored before, nothing stored included; and
\* passwordHistory never holds more than MAX_HISTORY_beta items.
C29_AddPutsItemAtFront ==
    [][/\ \A typed \in BetaTyped, checked \in BOOLEAN :
            (/\ beta_handleSubmit(typed, checked)
             /\ Accepted(sanitizeInputBeta(Trim(typed)))) =>
                /\ passwordHistory' # <<>>
                /\ Head(passwordHistory') = modal.item
                /\ secureGeneratorHistory' # NoItem
                /\ decryptData(secureGeneratorHistory',
                               sanitizeInputBeta(Trim(typed))).ok
                /\ secureGeneratorHistory'.data.pt = passwordHistory'
       /\ Len(passwordHistory') <= MAX_HISTORY_beta
      ]_vars

\* nothing is stored, a strong passphrase was submitted, and the add ended
\* with 'Invalid encryption passphrase.' and nothing stored
C29_Witness ==
    /\ secureGeneratorHistory = NoItem
    /\ messages = {INVALID_PASSPHRASE}
    /\ passwordHistory = <<>>
    /\ modal = NoModal

\* C30: a removal or an undo that rewrites the stored history leaves it
\* decryptable with every passphrase that decrypted it before.
C30_RemovalKeepsPassphrase ==
    [][(/\ undoOptions' # undoOptions
        /\ secureGeneratorHistory # NoItem
        /\ secureGeneratorHistory' # secureGeneratorHistory) =>
            \A passphrase \in BetaPassphrases :
                decryptData(secureGeneratorHistory, passphrase).ok =>
                    decryptData(secureGeneratorHistory', passphrase).ok
      ]_vars

\* after a removal the stored history no longer opens under the passphrase
\* it was stored with
C30_Witness ==
    /\ secureGeneratorHistory # NoItem
    /\ ~decryptData(secureGeneratorHistory, StoredPassphrase).ok
    /\ undoOptions # {}
    /\ Len(passwordHistory) = MAX_HISTORY_beta - 1

====
